---- MODULE Spec2Model ----
(***************************************************************************)
(* A model of rs-redux (src/src/main.rs): the immutable Collection<T> of   *)
(* identifiable entities, the entity and todo reducers, and the            *)
(* Store<State, Action> with its reducer chain and selector/observer       *)
(* pairs.                                                                  *)
(*                                                                         *)
(* A panic (the `expect` calls of remove and of the MarkDone / ChangeText  *)
(* arms) is modelled as the result Panic: it unwinds out of every caller   *)
(* up to the caller of dispatch without running any later statement.       *)
(***************************************************************************)
EXTENDS Integers, Sequences, FiniteSets, TLC

(* ------------------------------ bounds -------------------------------- *)

\* the most reducers a store registers
MaxReducers == 2
\* the most (selector, observer) pairs a store registers
MaxObservers == 2
\* the most successful dispatches of one run
MaxDispatch == 2
\* the most successful dispatches of one well-formed run
MaxWfDispatch == 4
\* the most dispatch calls of one run in steps
MaxCycles == 2
\* the longest ids sequence an add is applied to in the collection run
MaxLen == 3
\* the longest ids sequence an add is applied to in the run in memory
MaxMemLen == 2
\* the heap addresses of the run in memory
MaxAddr == 6

(* ------------------------------ inputs -------------------------------- *)

\* the ids entities carry (Identifiable::get_id); 2 is the id the selectors read
Ids == {1, 2}
\* the task texts
Tasks == {"a", "b"}
\* Identifiable for Todo
get_id(entity) == entity.id

\* Todo::new
TodoNew(id, task) == [id |-> id, task |-> task, done |-> FALSE]

(* --------------------------- results, panics -------------------------- *)

\* a call that returned val
Ok(val) == [ok |-> TRUE, val |-> val]
\* a call that panicked (Option::expect on None)
Panic == [ok |-> FALSE]

(* ------------------------------ HashMap ------------------------------- *)

\* HashMap::insert: binds k to v, replacing an earlier binding
insert(m, k, v) == [x \in (DOMAIN m) \cup {k} |-> IF x = k THEN v ELSE m[x]]
\* HashMap::remove: drops the binding of k, if any
map_remove(m, k) == [x \in (DOMAIN m) \ {k} |-> m[x]]

(* -------------------------------- Vec --------------------------------- *)

\* iter().position(|&e| e == id): the first index holding id, 0 for None
position(ids, id) ==
  IF \E i \in 1..Len(ids) : ids[i] = id
  THEN CHOOSE i \in 1..Len(ids) : ids[i] = id /\ \A j \in 1..(i - 1) : ids[j] # id
  ELSE 0
\* Vec::remove as it would be if it took the last element (Vec::pop)
vec_pop(ids, p) == [i \in 1..(Len(ids) - 1) |-> ids[i]]

\* Vec::remove(index): the elements after index shift left
vec_remove(ids, p) == [i \in 1..(Len(ids) - 1) |-> IF i < p THEN ids[i] ELSE ids[i + 1]]

(* ----------------------------- Collection ----------------------------- *)

\* Collection::new
CollectionNew == [ids |-> << >>, entities |-> << >>]

\* add as it would be if the id were put first, not pushed
add_front(self, entity) ==
  [ids |-> <<get_id(entity)>> \o self.ids,
   entities |-> insert(self.entities, get_id(entity), entity)]

\* Collection::add: pushes the id and inserts the entity, whatever the collection holds
add(self, entity) ==
  [ids |-> Append(self.ids, get_id(entity)),
   entities |-> insert(self.entities, get_id(entity), entity)]

\* update as it would be if it pushed the id, as add does
update_pushes(self, entity) ==
  [ids |-> Append(self.ids, get_id(entity)),
   entities |-> insert(self.entities, get_id(entity), entity)]

\* update as it would be if it kept the done flag of the entity it replaces
update_keeps_done(self, entity) ==
  [ids |-> self.ids,
   entities |-> insert(self.entities, get_id(entity),
                       IF get_id(entity) \in DOMAIN self.entities
                       THEN [entity EXCEPT !.done = self.entities[get_id(entity)].done]
                       ELSE entity)]

\* Collection::update: inserts the entity, the ids are moved as they are
update(self, entity) ==
  [ids |-> self.ids,
   entities |-> insert(self.entities, get_id(entity), entity)]

\* remove as it would be without new_collection.entities.remove(id)
remove_keeps_entity(self, id) ==
  IF position(self.ids, id) = 0
  THEN Panic
  ELSE Ok([ids |-> vec_remove(self.ids, position(self.ids, id)),
           entities |-> self.entities])

\* remove as it would be if an id that is not in ids were skipped silently
remove_lenient(self, id) ==
  IF position(self.ids, id) = 0
  THEN Ok([ids |-> self.ids, entities |-> map_remove(self.entities, id)])
  ELSE Ok([ids |-> vec_remove(self.ids, position(self.ids, id)),
           entities |-> map_remove(self.entities, id)])

\* Collection::remove: panics when the id is not in ids
remove(self, id) ==
  IF position(self.ids, id) = 0
  THEN Panic
  ELSE Ok([ids |-> vec_remove(self.ids, position(self.ids, id)),
           entities |-> map_remove(self.entities, id)])

(* ------------------------------ actions ------------------------------- *)

\* the entities the actions carry: Todo::new(id, "a"), as main builds them, and
\* a finished todo with the other text
NewTodos == {TodoNew(id, "a") : id \in Ids}
DoneTodos == {[id |-> id, task |-> "b", done |-> TRUE] : id \in Ids}

\* enum EntityAction<Todo>
EntityActions ==
  [type : {"AddEntity"}, entity : NewTodos]
    \cup [type : {"RemoveEntity"}, id : Ids]
    \cup [type : {"ReplaceEntity"}, entity : DoneTodos]

\* enum TodoAction
TodoActions ==
  [type : {"Entity"}, action : EntityActions]
    \cup [type : {"MarkDone"}, id : Ids, done : BOOLEAN]
    \cup [type : {"ChangeText"}, id : Ids, text : Tasks]

(* ------------------------------ reducers ------------------------------ *)

\* entity_reducer as it would be if the ReplaceEntity arm called add
entity_reducer_replace_adds(entity_state, action) ==
  CASE action.type = "AddEntity" -> Ok(add(entity_state, action.entity))
    [] action.type = "ReplaceEntity" -> Ok(add(entity_state, action.entity))
    [] action.type = "RemoveEntity" -> remove(entity_state, action.id)

\* entity_reducer
entity_reducer(entity_state, action) ==
  CASE action.type = "AddEntity" -> Ok(add(entity_state, action.entity))
    [] action.type = "ReplaceEntity" -> Ok(update(entity_state, action.entity))
    [] action.type = "RemoveEntity" -> remove(entity_state, action.id)

\* RootState::new
RootStateNew == [todos |-> CollectionNew]

\* todo_reducer as it would be if MarkDone and ChangeText of a missing todo
\* returned the state as it is instead of panicking
todo_reducer_lenient(todo_state, action) ==
  CASE action.type = "Entity" ->
         LET r == entity_reducer(todo_state.todos, action.action)
         IN IF r.ok THEN Ok([todos |-> r.val]) ELSE Panic
    [] action.type = "MarkDone" ->
         IF action.id \in DOMAIN todo_state.todos.entities
         THEN Ok([todos |-> [todo_state.todos EXCEPT
                               !.entities[action.id].done = action.done]])
         ELSE Ok(todo_state)
    [] action.type = "ChangeText" ->
         IF action.id \in DOMAIN todo_state.todos.entities
         THEN Ok([todos |-> [todo_state.todos EXCEPT
                               !.entities[action.id].task = action.text]])
         ELSE Ok(todo_state)

\* todo_reducer as it would be if the ChangeText arm built the todo anew with
\* Todo::new(id, text)
todo_reducer_renews(todo_state, action) ==
  CASE action.type = "Entity" ->
         LET r == entity_reducer(todo_state.todos, action.action)
         IN IF r.ok THEN Ok([todos |-> r.val]) ELSE Panic
    [] action.type = "MarkDone" ->
         IF action.id \in DOMAIN todo_state.todos.entities
         THEN Ok([todos |-> [todo_state.todos EXCEPT
                               !.entities[action.id].done = action.done]])
         ELSE Panic
    [] action.type = "ChangeText" ->
         IF action.id \in DOMAIN todo_state.todos.entities
         THEN Ok([todos |-> [todo_state.todos EXCEPT
                               !.entities[action.id] = TodoNew(action.id, action.text)]])
         ELSE Panic

\* todo_reducer
todo_reducer(todo_state, action) ==
  CASE action.type = "Entity" ->
         LET r == entity_reducer(todo_state.todos, action.action)
         IN IF r.ok THEN Ok([todos |-> r.val]) ELSE Panic
    [] action.type = "MarkDone" ->
         IF action.id \in DOMAIN todo_state.todos.entities
         THEN Ok([todos |-> [todo_state.todos EXCEPT
                               !.entities[action.id].done = action.done]])
         ELSE Panic
    [] action.type = "ChangeText" ->
         IF action.id \in DOMAIN todo_state.todos.entities
         THEN Ok([todos |-> [todo_state.todos EXCEPT
                               !.entities[action.id].task = action.text]])
         ELSE Panic

(* ------------------------------ selectors ----------------------------- *)

\* select_id_2_todo_task_done: Option<bool>, None as [some |-> FALSE]
select_id_2_todo_task_done(s) ==
  IF 2 \in DOMAIN s.todos.entities
  THEN [some |-> TRUE, val |-> s.todos.entities[2].done]
  ELSE [some |-> FALSE]

\* test_observer
test_observer(s) == select_id_2_todo_task_done(s).some

\* the selectors a caller hands to observe (Selector<State, bool>)
BoolSelectors == {"test_observer"}
\* the selectors a caller hands to select (Selector<State, T>)
Selectors == {"test_observer", "select_id_2_todo_task_done"}

\* (so.selector)(state) / selector(state): the call of a boxed selector
call_selector(selector, s) ==
  CASE selector = "test_observer" -> test_observer(s)
    [] selector = "select_id_2_todo_task_done" -> select_id_2_todo_task_done(s)

(* ------------------------------- Store -------------------------------- *)

\* the reducers a caller hands to register_reducer: todo_reducer, as main does,
\* and the closure |_, _| RootState::new()
Reducers == {"todo_reducer", "clear"}

\* reducer(prev_state, &action): the call of a boxed reducer
call_reducer(reducer, prev_state, action) ==
  CASE reducer = "todo_reducer" -> todo_reducer(prev_state, action)
    [] reducer = "clear" -> Ok(RootStateNew)

\* the fold as it would be if every reducer were handed the state the fold
\* started from, not the previous reducer's output
RECURSIVE fold_from_init(_, _, _)
fold_from_init(reducers_, prev_state, action) ==
  IF reducers_ = << >>
  THEN Ok(prev_state)
  ELSE LET r == call_reducer(Head(reducers_), prev_state, action)
           rest == fold_from_init(Tail(reducers_), prev_state, action)
       IN IF ~r.ok \/ ~rest.ok THEN Panic
          ELSE IF Tail(reducers_) = << >> THEN r ELSE rest

\* the fold that keeps the state of the reducers that returned before one
\* panicked
RECURSIVE fold_keep(_, _, _)
fold_keep(reducers_, prev_state, action) ==
  IF reducers_ = << >>
  THEN prev_state
  ELSE LET r == call_reducer(Head(reducers_), prev_state, action)
       IN IF r.ok THEN fold_keep(Tail(reducers_), r.val, action) ELSE prev_state

\* the fold as it would be with Iterator::reduce and an expect: no reducer, no
\* state
RECURSIVE fold_some(_, _, _)
fold_some(reducers_, prev_state, action) ==
  IF reducers_ = << >>
  THEN Panic
  ELSE LET r == call_reducer(Head(reducers_), prev_state, action)
       IN IF ~r.ok THEN Panic
          ELSE IF Tail(reducers_) = << >> THEN r
          ELSE fold_some(Tail(reducers_), r.val, action)

\* self.reducers.iter().fold(init, |prev_state, reducer| reducer(prev_state, &action)):
\* a panicking reducer ends the fold
RECURSIVE fold(_, _, _)
fold(reducers_, prev_state, action) ==
  IF reducers_ = << >>
  THEN Ok(prev_state)
  ELSE LET r == call_reducer(Head(reducers_), prev_state, action)
       IN IF r.ok THEN fold(Tail(reducers_), r.val, action) ELSE Panic

\* self.observers.iter().for_each(|so| (so.observer)((so.selector)(self.state.clone()))):
\* the observer calls made, in order, each with the value it is handed
for_each_observer(observers_, state_) ==
  [j \in 1..Len(observers_) |->
     [observer |-> j, value |-> call_selector(observers_[j], state_)]]

\* Store::new
StoreNew(state_) == [state |-> state_, reducers |-> << >>, observers |-> << >>]

\* Store::register_reducer
register_reducer(self, reducer) ==
  [self EXCEPT !.reducers = Append(self.reducers, reducer)]

\* dispatch as it would be if the state were assigned reducer by reducer: a
\* panic leaves the state of the reducers that returned
dispatch_partial(self, action) ==
  LET r == fold(self.reducers, self.state, action)
  IN IF r.ok
     THEN [ok |-> TRUE,
           store |-> [self EXCEPT !.state = r.val],
           fired |-> for_each_observer(self.observers, r.val)]
     ELSE [ok |-> FALSE,
           store |-> [self EXCEPT !.state = fold_keep(self.reducers, self.state, action)],
           fired |-> << >>]

\* dispatch as it would be if the observers were called before the assignment
dispatch_notify_first(self, action) ==
  LET r == fold(self.reducers, self.state, action)
  IN IF r.ok
     THEN [ok |-> TRUE,
           store |-> [self EXCEPT !.state = r.val],
           fired |-> for_each_observer(self.observers, self.state)]
     ELSE [ok |-> FALSE, store |-> self, fired |-> << >>]

\* Store::dispatch: the store after the call, whether the call returned (ok) or
\* panicked, and the observer calls it made
dispatch(self, action) ==
  LET r == fold(self.reducers, self.state, action)
  IN IF r.ok
     THEN [ok |-> TRUE,
           store |-> [self EXCEPT !.state = r.val],
           fired |-> for_each_observer(self.observers, r.val)]
     ELSE [ok |-> FALSE, store |-> self, fired |-> << >>]

\* Store::get_state
get_state(self) == self.state

\* select as it would be if it kept the selector, as observe does
select_registers(self, selector) ==
  [store |-> [self EXCEPT !.observers = Append(self.observers, selector)],
   ret |-> call_selector(selector, self.state)]

\* Store::select
select(self, selector) ==
  [store |-> self, ret |-> call_selector(selector, self.state)]

\* observe as it would be if it called the new observer at once with the
\* selection of the current state
observe_fires(self, selector) ==
  [store |-> [self EXCEPT !.observers = Append(self.observers, selector)],
   fired |-> <<[observer |-> Len(self.observers) + 1,
                value |-> call_selector(selector, self.state)]>>]

\* Store::observe: the store after the call and the observer calls it made (none)
observe(self, selector) ==
  [store |-> [self EXCEPT !.observers = Append(self.observers, selector)],
   fired |-> << >>]

(* --------------------------- the store run ---------------------------- *)

VARIABLES
  store,      \* the Store: state, reducers, observers
  last,       \* the last call made on the store, with what it returned
  pre,        \* the store before the last call
  committed,  \* the state the last successful dispatch committed, first the initial one
  calls,      \* calls[j]: how often observer j (by registration) has been called
  since,      \* since[j]: the successful dispatches made before observer j registered
  nOk         \* the successful dispatches made

storeVars == <<store, last, pre, committed, calls, since, nOk>>

\* main: Store::new(RootState::new())
StoreInit ==
  /\ store = StoreNew(RootStateNew)
  /\ last = [op |-> "new"]
  /\ pre = StoreNew(RootStateNew)
  /\ committed = RootStateNew
  /\ calls = << >>
  /\ since = << >>
  /\ nOk = 0

RegisterReducer ==
  \E reducer \in Reducers :
    /\ Len(store.reducers) < MaxReducers
    /\ store' = register_reducer(store, reducer)
    /\ last' = [op |-> "register_reducer", reducer |-> reducer]
    /\ pre' = store
    /\ UNCHANGED <<committed, calls, since, nOk>>

\* one dispatch, as long as fewer than `most` dispatches have returned
DispatchStep(action, most) ==
  LET d == dispatch(store, action)
  IN /\ d.ok => nOk < most
     /\ store' = d.store
     /\ last' = [op |-> "dispatch", action |-> action, ok |-> d.ok, fired |-> d.fired]
     /\ pre' = store
     /\ committed' = IF d.ok THEN d.store.state ELSE committed
     /\ calls' = [j \in 1..Len(calls) |->
                    calls[j] + Cardinality({k \in 1..Len(d.fired) : d.fired[k].observer = j})]
     /\ nOk' = IF d.ok THEN nOk + 1 ELSE nOk
     /\ UNCHANGED since

Dispatch == \E action \in TodoActions : DispatchStep(action, MaxDispatch)

GetState ==
  /\ last' = [op |-> "get_state", ret |-> get_state(store)]
  /\ pre' = store
  /\ UNCHANGED <<store, committed, calls, since, nOk>>

Select ==
  \E selector \in Selectors :
    LET r == select(store, selector)
    IN /\ store' = r.store
       /\ last' = [op |-> "select", selector |-> selector, ret |-> r.ret]
       /\ pre' = store
       /\ UNCHANGED <<committed, calls, since, nOk>>

Observe ==
  \E selector \in BoolSelectors :
    /\ Len(store.observers) < MaxObservers
    /\ store' = observe(store, selector).store
    /\ last' = [op |-> "observe", selector |-> selector,
                fired |-> observe(store, selector).fired]
    /\ pre' = store
    /\ calls' = Append(calls, Len(observe(store, selector).fired))
    /\ since' = Append(since, nOk)
    /\ UNCHANGED <<committed, nOk>>

(* ------------------------- the well-formed run ------------------------ *)

\* main: the store with todo_reducer and one observer of test_observer
WfInit ==
  /\ store = observe(register_reducer(StoreNew(RootStateNew), "todo_reducer"),
                     "test_observer").store
  /\ last = [op |-> "observe", selector |-> "test_observer", fired |-> << >>]
  /\ pre = register_reducer(StoreNew(RootStateNew), "todo_reducer")
  /\ committed = RootStateNew
  /\ calls = <<0>>
  /\ since = <<0>>
  /\ nOk = 0

\* the ids of a Vec
IdsOf(ids) == {ids[i] : i \in 1..Len(ids)}

\* the dispatches main makes: AddEntity of an id the collection holds nowhere,
\* the other actions on an id it holds
WellFormed(c, action) ==
  CASE action.type = "Entity" /\ action.action.type = "AddEntity" ->
         /\ get_id(action.action.entity) \notin IdsOf(c.ids)
         /\ get_id(action.action.entity) \notin DOMAIN c.entities
    [] action.type = "Entity" /\ action.action.type = "ReplaceEntity" ->
         /\ get_id(action.action.entity) \in IdsOf(c.ids)
         /\ get_id(action.action.entity) \in DOMAIN c.entities
    [] action.type = "Entity" /\ action.action.type = "RemoveEntity" ->
         action.action.id \in IdsOf(c.ids) /\ action.action.id \in DOMAIN c.entities
    [] action.type \in {"MarkDone", "ChangeText"} ->
         action.id \in IdsOf(c.ids) /\ action.id \in DOMAIN c.entities

WfDispatch ==
  \E action \in TodoActions :
    /\ WellFormed(store.state.todos, action)
    /\ DispatchStep(action, MaxWfDispatch)

(* ------------------------- the collection run ------------------------- *)

VARIABLES
  coll,      \* a Collection<Todo>
  collLast,  \* the last operation applied to it, and whether it returned
  collPre    \* the collection the last operation was applied to

collVars == <<coll, collLast, collPre>>

\* Collection::new()
CollInit ==
  /\ coll = CollectionNew
  /\ collLast = [op |-> "new"]
  /\ collPre = CollectionNew

CollAdd ==
  \E entity \in NewTodos \cup DoneTodos :
    /\ Len(coll.ids) < MaxLen
    /\ coll' = add(coll, entity)
    /\ collLast' = [op |-> "add", entity |-> entity, ok |-> TRUE]
    /\ collPre' = coll

CollUpdate ==
  \E entity \in NewTodos \cup DoneTodos :
    /\ coll' = update(coll, entity)
    /\ collLast' = [op |-> "update", entity |-> entity, ok |-> TRUE]
    /\ collPre' = coll

\* a remove that panics returns no collection: the caller keeps the one it had
CollRemove ==
  \E id \in Ids :
    LET r == remove(coll, id)
    IN /\ coll' = IF r.ok THEN r.val ELSE coll
       /\ collLast' = [op |-> "remove", id |-> id, ok |-> r.ok]
       /\ collPre' = coll

(* -------------------- the collection in memory ------------------------ *)
(* The same operations with their buffers: a Collection owns a Vec buffer  *)
(* and a HashMap buffer on the heap, a clone allocates, a value that goes  *)
(* out of scope frees what it owns, a move hands the buffer on.            *)

\* the heap addresses
Addrs == 1..MaxAddr
\* a buffer that is not allocated
FreeBuffer == [live |-> FALSE, data |-> << >>]
\* no Collection (a variable that was moved out of)
Moved == [ids |-> 0, entities |-> 0]

FreeAddrs(heap_) == {a \in Addrs : ~heap_[a].live}
\* the allocator: the lowest free address
alloc(heap_) == CHOOSE a \in FreeAddrs(heap_) : \A b \in FreeAddrs(heap_) : a <= b

\* Vec::clone / HashMap::clone: a new buffer with the same contents
buffer_clone(heap_, a) ==
  LET n == alloc(heap_)
  IN [heap |-> [heap_ EXCEPT ![n] = [live |-> TRUE, data |-> heap_[a].data]], at |-> n]

\* Collection::clone as it would be if it copied the references, not the buffers
clone_shallow(heap_, self) == [heap |-> heap_, obj |-> self]

\* impl Clone for Collection: clones ids, then entities
clone(heap_, self) ==
  LET i == buffer_clone(heap_, self.ids)
      e == buffer_clone(i.heap, self.entities)
  IN [heap |-> e.heap, obj |-> [ids |-> i.at, entities |-> e.at]]

\* a buffer whose owner goes out of scope
drop_buffer(heap_, a) == [heap_ EXCEPT ![a] = FreeBuffer]
\* a Collection that goes out of scope
drop(heap_, self) == drop_buffer(drop_buffer(heap_, self.ids), self.entities)

\* Collection::new in memory
mem_new(heap_) ==
  LET i == alloc(heap_)
      h1 == [heap_ EXCEPT ![i] = [live |-> TRUE, data |-> << >>]]
      e == alloc(h1)
  IN [heap |-> [h1 EXCEPT ![e] = [live |-> TRUE, data |-> << >>]],
      obj |-> [ids |-> i, entities |-> e]]

\* Collection::add in memory: the heap and the Collection returned, and the
\* buffers written in place; self is dropped at the end of the call
mem_add(heap_, self, entity) ==
  LET c == clone(heap_, self)
      new_collection == c.obj
      h1 == [c.heap EXCEPT ![new_collection.ids].data = Append(@, get_id(entity))]
      h2 == [h1 EXCEPT ![new_collection.entities].data = insert(@, get_id(entity), entity)]
  IN [ok |-> TRUE,
      heap |-> drop(h2, self),
      obj |-> new_collection,
      wrote |-> {new_collection.ids, new_collection.entities}]

\* Collection::update in memory: entities is cloned, ids is moved into the
\* result; the entities of self are dropped at the end of the call
mem_update(heap_, self, entity) ==
  LET e == buffer_clone(heap_, self.entities)
      h1 == [e.heap EXCEPT ![e.at].data = insert(@, get_id(entity), entity)]
  IN [ok |-> TRUE,
      heap |-> drop_buffer(h1, self.entities),
      obj |-> [ids |-> self.ids, entities |-> e.at],
      wrote |-> {e.at}]

\* Collection::remove in memory: a panic unwinds and drops new_collection and self
mem_remove(heap_, self, id) ==
  LET c == clone(heap_, self)
      new_collection == c.obj
      p == position(c.heap[new_collection.ids].data, id)
      h1 == [c.heap EXCEPT ![new_collection.ids].data = vec_remove(@, p)]
      h2 == [h1 EXCEPT ![new_collection.entities].data = map_remove(@, id)]
  IN IF p = 0
     THEN [ok |-> FALSE,
           heap |-> drop(drop(c.heap, new_collection), self),
           obj |-> Moved,
           wrote |-> {}]
     ELSE [ok |-> TRUE,
           heap |-> drop(h2, self),
           obj |-> new_collection,
           wrote |-> {new_collection.ids, new_collection.entities}]

\* the Collection value a handle stands for
Value(heap_, c) == [ids |-> heap_[c.ids].data, entities |-> heap_[c.entities].data]

VARIABLES
  heap,     \* the buffers
  cur,      \* let c: the collection the caller owns, Moved after a panic
  snap,     \* let copy = c.clone(): a copy the caller took, Moved when it has none
  snapVal,  \* the value the copy had when it was taken
  memLast   \* the last operation, and the buffers live before it that it wrote in place

memVars == <<heap, cur, snap, snapVal, memLast>>

\* let c = Collection::new()
MemInit ==
  /\ heap = mem_new([a \in Addrs |-> FreeBuffer]).heap
  /\ cur = mem_new([a \in Addrs |-> FreeBuffer]).obj
  /\ snap = Moved
  /\ snapVal = CollectionNew
  /\ memLast = [op |-> "new"]

Live(heap_) == {a \in Addrs : heap_[a].live}
\* room for the buffers one call allocates
Room == Cardinality(FreeAddrs(heap)) >= 2

\* c = Collection::new(), after a panic took the collection
MemNew ==
  /\ cur = Moved
  /\ Room
  /\ heap' = mem_new(heap).heap
  /\ cur' = mem_new(heap).obj
  /\ memLast' = [op |-> "new"]
  /\ UNCHANGED <<snap, snapVal>>

\* let copy = c.clone()
MemClone ==
  /\ cur # Moved
  /\ snap = Moved
  /\ Room
  /\ heap' = clone(heap, cur).heap
  /\ snap' = clone(heap, cur).obj
  /\ snapVal' = Value(heap, cur)
  /\ memLast' = [op |-> "clone"]
  /\ UNCHANGED cur

\* the copy goes out of scope
MemDropCopy ==
  /\ snap # Moved
  /\ heap' = drop(heap, snap)
  /\ snap' = Moved
  /\ memLast' = [op |-> "drop"]
  /\ UNCHANGED <<cur, snapVal>>

\* what an operation on c leaves: c = c.op(..)
MemApply(op, r) ==
  /\ heap' = r.heap
  /\ cur' = r.obj
  /\ memLast' = [op |-> op, ok |-> r.ok, clobbered |-> r.wrote \cap Live(heap)]
  /\ UNCHANGED <<snap, snapVal>>

MemAdd ==
  \E entity \in NewTodos :
    /\ cur # Moved
    /\ Room
    /\ Len(heap[cur.ids].data) < MaxMemLen
    /\ MemApply("add", mem_add(heap, cur, entity))

MemUpdate ==
  \E entity \in DoneTodos :
    /\ cur # Moved
    /\ Room
    /\ MemApply("update", mem_update(heap, cur, entity))

MemRemove ==
  \E id \in Ids :
    /\ cur # Moved
    /\ Room
    /\ MemApply("remove", mem_remove(heap, cur, id))

(* ------------------------- dispatch in steps -------------------------- *)
(* One dispatch call statement by statement: the fold reducer by reducer   *)
(* on a clone of the state, the assignment, the observers one by one. A    *)
(* call that is running is a frame; dispatch takes &mut self.              *)

\* the actions of the run in steps
StepActions ==
  [type : {"Entity"},
   action : [type : {"AddEntity"}, entity : NewTodos]
              \cup [type : {"RemoveEntity"}, id : Ids]]

\* the stores of the run in steps: up to MaxReducers reducers and MaxObservers
\* observers of test_observer, registered before the first dispatch
Chains == UNION {[1..n -> Reducers] : n \in 0..MaxReducers}
StepStores ==
  {[state |-> RootStateNew, reducers |-> c, observers |-> [j \in 1..n |-> "test_observer"]] :
     c \in Chains, n \in 0..MaxObservers}

\* the borrow as it would be if dispatch took &self and changed the state
\* through a cell
borrow_shared(frames_) == TRUE

\* fn dispatch(&mut self, ..): the store is borrowed mutably for the whole call,
\* so a call begins only while no call on the store is running
borrow_mut(frames_) == frames_ = << >>

\* a sequence without its f-th element
Without(seq, f) == [i \in 1..(Len(seq) - 1) |-> IF i < f THEN seq[i] ELSE seq[i + 1]]

VARIABLES
  stepStore,  \* the Store
  frames,     \* the dispatch calls that are running
  started,    \* the dispatch calls begun
  events      \* what ran, in order: <<call, "reduce" | "panic" | "commit" | "observe">>

stepVars == <<stepStore, frames, started, events>>

StepInit ==
  /\ stepStore \in StepStores
  /\ frames = << >>
  /\ started = 0
  /\ events = << >>

\* store.dispatch(action) is called: the fold starts from self.state.clone()
StepBegin ==
  \E action \in StepActions :
    /\ borrow_mut(frames)
    /\ started < MaxCycles
    /\ started' = started + 1
    /\ frames' = Append(frames, [call |-> started + 1, action |-> action, phase |-> "fold",
                                 next |-> 1, prev_state |-> stepStore.state,
                                 from |-> stepStore.state])
    /\ UNCHANGED <<stepStore, events>>

\* the fold calls the next reducer; a panic unwinds the call
StepReduce ==
  \E f \in 1..Len(frames) :
    LET fr == frames[f]
        r == call_reducer(stepStore.reducers[fr.next], fr.prev_state, fr.action)
    IN /\ fr.phase = "fold"
       /\ fr.next <= Len(stepStore.reducers)
       /\ IF r.ok
          THEN /\ frames' = [frames EXCEPT ![f].next = fr.next + 1, ![f].prev_state = r.val]
               /\ events' = Append(events, <<fr.call, "reduce">>)
          ELSE /\ frames' = Without(frames, f)
               /\ events' = Append(events, <<fr.call, "panic">>)
       /\ UNCHANGED <<stepStore, started>>

\* self.state = the result of the fold
StepCommit ==
  \E f \in 1..Len(frames) :
    LET fr == frames[f]
    IN /\ fr.phase = "fold"
       /\ fr.next > Len(stepStore.reducers)
       /\ stepStore' = [stepStore EXCEPT !.state = fr.prev_state]
       /\ frames' = [frames EXCEPT ![f].phase = "notify", ![f].next = 1]
       /\ events' = Append(events, <<fr.call, "commit">>)
       /\ UNCHANGED started

\* for_each calls the next observer
StepObserve ==
  \E f \in 1..Len(frames) :
    LET fr == frames[f]
    IN /\ fr.phase = "notify"
       /\ fr.next <= Len(stepStore.observers)
       /\ frames' = [frames EXCEPT ![f].next = fr.next + 1]
       /\ events' = Append(events, <<fr.call, "observe">>)
       /\ UNCHANGED <<stepStore, started>>

\* dispatch returns
StepReturn ==
  \E f \in 1..Len(frames) :
    LET fr == frames[f]
    IN /\ fr.phase = "notify"
       /\ fr.next > Len(stepStore.observers)
       /\ frames' = Without(frames, f)
       /\ UNCHANGED <<stepStore, started, events>>

(* --------------------------- specifications --------------------------- *)

vars == <<storeVars, collVars, memVars, stepVars>>

\* the run in steps at rest: its first store, no call
StepIdle ==
  /\ stepStore = StoreNew(RootStateNew)
  /\ frames = << >>
  /\ started = 0
  /\ events = << >>

Init == StoreInit /\ CollInit /\ MemInit /\ StepIdle

\* a store, driven by any calls of its methods
Next ==
  \/ RegisterReducer /\ UNCHANGED <<collVars, memVars, stepVars>>
  \/ Dispatch /\ UNCHANGED <<collVars, memVars, stepVars>>
  \/ GetState /\ UNCHANGED <<collVars, memVars, stepVars>>
  \/ Select /\ UNCHANGED <<collVars, memVars, stepVars>>
  \/ Observe /\ UNCHANGED <<collVars, memVars, stepVars>>
Spec == Init /\ [][Next]_vars

\* the store of main, driven by well-formed dispatches only
InitWf == WfInit /\ CollInit /\ MemInit /\ StepIdle
NextWf == WfDispatch /\ UNCHANGED <<collVars, memVars, stepVars>>
SpecWf == InitWf /\ [][NextWf]_vars

\* a collection, driven by any sequence of add, update and remove
NextColl ==
  \/ CollAdd /\ UNCHANGED <<storeVars, memVars, stepVars>>
  \/ CollUpdate /\ UNCHANGED <<storeVars, memVars, stepVars>>
  \/ CollRemove /\ UNCHANGED <<storeVars, memVars, stepVars>>
SpecColl == Init /\ [][NextColl]_vars

\* a collection and a copy of it in memory, driven by any sequence of add,
\* update and remove
NextMem ==
  \/ MemNew /\ UNCHANGED <<storeVars, collVars, stepVars>>
  \/ MemClone /\ UNCHANGED <<storeVars, collVars, stepVars>>
  \/ MemDropCopy /\ UNCHANGED <<storeVars, collVars, stepVars>>
  \/ MemAdd /\ UNCHANGED <<storeVars, collVars, stepVars>>
  \/ MemUpdate /\ UNCHANGED <<storeVars, collVars, stepVars>>
  \/ MemRemove /\ UNCHANGED <<storeVars, collVars, stepVars>>
SpecMem == Init /\ [][NextMem]_vars

\* a store whose dispatch calls run step by step
InitSteps == StoreInit /\ CollInit /\ MemInit /\ StepInit
NextSteps ==
  \/ StepBegin /\ UNCHANGED <<storeVars, collVars, memVars>>
  \/ StepReduce /\ UNCHANGED <<storeVars, collVars, memVars>>
  \/ StepCommit /\ UNCHANGED <<storeVars, collVars, memVars>>
  \/ StepObserve /\ UNCHANGED <<storeVars, collVars, memVars>>
  \/ StepReturn /\ UNCHANGED <<storeVars, collVars, memVars>>
SpecSteps == InitSteps /\ [][NextSteps]_vars

(* ------------------------------- claims ------------------------------- *)

\* the ids a Vec holds
Range(seq) == {seq[i] : i \in 1..Len(seq)}
NoDuplicates(seq) == \A i, j \in 1..Len(seq) : seq[i] = seq[j] => i = j

\* the result of the first n reducers of a chain on state s and action a, written
\* as the composition rn(...r2(r1(s, a), a)..., a)
RECURSIVE Through(_, _, _, _)
Through(chain, n, s, a) ==
  IF n = 0
  THEN Ok(s)
  ELSE LET p == Through(chain, n - 1, s, a)
       IN IF p.ok THEN call_reducer(chain[n], p.val, a) ELSE Panic

\* the state the n-th reducer of the chain is handed, where the reducers before
\* it returned
Reaches(chain, n, s, a) == n \in 1..Len(chain) /\ Through(chain, n - 1, s, a).ok
Input(chain, n, s, a) == Through(chain, n - 1, s, a).val

LastDispatch == last.op = "dispatch"
DispatchFailed == LastDispatch /\ ~last.ok
DispatchReturned == LastDispatch /\ last.ok

\* C1: after any sequence of add, update and remove from the empty collection,
\* ids holds no duplicate and holds exactly the keys of entities.
C1_OrderMapConsistency ==
  NoDuplicates(coll.ids) /\ Range(coll.ids) = DOMAIN coll.entities

\* C2: when a reducer of the chain fails during dispatch(action), also after
\* earlier reducers returned, the dispatch fails, the store is as it was before
\* the call and no observer is called.
C2_NoPartialCommit ==
  (LastDispatch /\ \E n \in 1..Len(pre.reducers) :
                     ~Through(pre.reducers, n, pre.state, last.action).ok)
    => /\ ~last.ok
       /\ store = pre
       /\ last.fired = << >>

\* C2 witness: the second reducer of a chain panicked on the changed state the
\* first one returned, with an observer registered.
C2_Witness ==
  /\ DispatchFailed
  /\ Len(pre.reducers) = 2
  /\ Len(pre.observers) >= 1
  /\ Through(pre.reducers, 1, pre.state, last.action).ok
  /\ Through(pre.reducers, 1, pre.state, last.action).val # pre.state
  /\ ~Through(pre.reducers, 2, pre.state, last.action).ok

\* C3: a dispatch that returns leaves the state rn(...r2(r1(s, a), a)..., a) for
\* the reducers r1..rn registered at the call, in registration order, and
\* registering a reducer leaves the state as it is.
C3_FoldOrder ==
  /\ DispatchReturned =>
       /\ store.reducers = pre.reducers
       /\ Through(pre.reducers, Len(pre.reducers), pre.state, last.action).ok
       /\ store.state =
            Through(pre.reducers, Len(pre.reducers), pre.state, last.action).val
  /\ last.op = "register_reducer" =>
       /\ store.state = pre.state
       /\ store.reducers = Append(pre.reducers, last.reducer)

\* C3 witness: a dispatch through two different reducers, on a state an earlier
\* dispatch left, whose result differs from what the other order gives and from
\* what the first reducer alone gives.
C3_Witness ==
  /\ DispatchReturned
  /\ Len(pre.reducers) = 2
  /\ pre.reducers[1] # pre.reducers[2]
  /\ pre.state # RootStateNew
  /\ LET other == <<pre.reducers[2], pre.reducers[1]>>
         swapped == Through(other, 2, pre.state, last.action)
     IN swapped.ok /\ swapped.val # store.state
  /\ call_reducer(pre.reducers[1], pre.state, last.action).val # store.state

\* C4: a dispatch that returns calls every registered observer once, in
\* registration order, with its selector applied to the state just committed;
\* an observer has been called once per dispatch that returned since it registered.
C4_ObserverNotification ==
  /\ DispatchReturned =>
       /\ Len(last.fired) = Len(store.observers)
       /\ \A j \in 1..Len(last.fired) :
            /\ last.fired[j].observer = j
            /\ last.fired[j].value = call_selector(store.observers[j], store.state)
  /\ Len(calls) = Len(store.observers)
  /\ \A j \in 1..Len(calls) : calls[j] = nOk - since[j]

\* C4 witness: the second dispatch that returned, with two observers registered
\* before the first, changed what the selector gives.
C4_Witness ==
  /\ DispatchReturned
  /\ Len(store.observers) = 2
  /\ nOk = 2
  /\ calls = <<2, 2>>
  /\ call_selector(store.observers[1], pre.state)
       # call_selector(store.observers[1], store.state)

\* C5: register_reducer, observe, select and get_state leave the state as it
\* is; select returns its selector applied to the state and leaves the store as
\* it is; get_state returns the state the last dispatch that returned committed.
C5_StateOnlyByDispatch ==
  /\ store.state = committed
  /\ last.op \in {"register_reducer", "observe", "select", "get_state"} =>
       store.state = pre.state
  /\ last.op = "select" =>
       /\ store = pre
       /\ last.ret = call_selector(last.selector, store.state)
  /\ last.op = "get_state" =>
       /\ store = pre
       /\ last.ret = committed

\* C5 witness: a select after a dispatch that changed the state, with an
\* observer registered.
C5_Witness ==
  /\ last.op = "select"
  /\ last.selector = "test_observer"
  /\ last.ret = TRUE
  /\ nOk >= 1
  /\ Len(store.observers) >= 1

\* the operations of the run in memory
MemOps == {"add", "update", "remove"}

\* the run in memory computes what the operations on values compute
MemAgreesWithValues ==
  [][/\ memLast'.op = "add" =>
          \E entity \in NewTodos \cup DoneTodos :
            Value(heap', cur') = add(Value(heap, cur), entity)
     /\ memLast'.op = "update" =>
          \E entity \in NewTodos \cup DoneTodos :
            Value(heap', cur') = update(Value(heap, cur), entity)
     /\ memLast'.op = "remove" =>
          \E id \in Ids :
            /\ remove(Value(heap, cur), id).ok = memLast'.ok
            /\ memLast'.ok => Value(heap', cur') = remove(Value(heap, cur), id).val]_vars

\* C6: add, update and remove write in place only buffers they allocated
\* themselves, never one that was live before the call (the receiver's, a
\* copy's), and a copy taken before the call still has its buffers and the
\* value it was taken with.
C6_Immutability ==
  /\ memLast.op \in MemOps => memLast.clobbered = {}
  /\ snap # Moved =>
       /\ heap[snap.ids].live /\ heap[snap.entities].live
       /\ {snap.ids, snap.entities} \cap {cur.ids, cur.entities} = {}
       /\ Value(heap, snap) = snapVal

\* C6 witness: a copy of a collection of two entities was taken, and an
\* operation then returned a collection with another value.
C6_Witness ==
  /\ snap # Moved
  /\ Len(snapVal.ids) = 2
  /\ memLast.op \in MemOps
  /\ memLast.ok
  /\ Value(heap, cur) # snapVal

\* the todos collection the n-th reducer is handed lacks id: it is neither in
\* ids nor a key of entities
AbsentAt(n, id) ==
  LET c == Input(pre.reducers, n, pre.state, last.action).todos
  IN id \notin Range(c.ids) /\ id \notin DOMAIN c.entities

\* the last call dispatched the entity action `type` and todo_reducer, as the
\* n-th reducer, was handed it
EntityActionAt(n, type) ==
  /\ LastDispatch
  /\ last.action.type = "Entity"
  /\ last.action.action.type = type
  /\ Reaches(pre.reducers, n, pre.state, last.action)
  /\ pre.reducers[n] = "todo_reducer"

\* C7: remove(id) of an id that is not in ids fails, and RemoveEntity(id)
\* dispatched to a store whose collection lacks the id fails and leaves the
\* store as it was.
C7_RemoveAbsentFails ==
  \A n \in 1..Len(pre.reducers) :
    (/\ EntityActionAt(n, "RemoveEntity")
     /\ last.action.action.id
          \notin Range(Input(pre.reducers, n, pre.state, last.action).todos.ids))
      => /\ ~remove(Input(pre.reducers, n, pre.state, last.action).todos,
                    last.action.action.id).ok
         /\ ~last.ok
         /\ store = pre

\* C7 witness: RemoveEntity of an absent id failed on a collection that holds
\* another entity.
C7_Witness ==
  /\ DispatchFailed
  /\ EntityActionAt(1, "RemoveEntity")
  /\ AbsentAt(1, last.action.action.id)
  /\ pre.state.todos.ids # << >>

\* C8: ReplaceEntity of an entity whose id the store's collection lacks fails
\* and leaves the collection as it was: no entry is made for the id.
C8_UpdateAbsentFails ==
  (EntityActionAt(1, "ReplaceEntity") /\ AbsentAt(1, last.action.action.entity.id))
    => ~last.ok /\ store = pre

\* C9: AddEntity of an entity whose id the store's collection holds fails and
\* leaves the collection as it was, so that the id is never twice in ids.
C9_AddExistingFails ==
  /\ (/\ EntityActionAt(1, "AddEntity")
      /\ last.action.action.entity.id \in Range(pre.state.todos.ids))
       => ~last.ok /\ store = pre
  /\ store.reducers = <<"todo_reducer">> => NoDuplicates(store.state.todos.ids)

\* C10: MarkDone or ChangeText of an id that is no key of the todos' entities
\* fails: the dispatch fails, the store is as it was and no observer is called.
C10_FieldMutationAbsentFails ==
  \A n \in 1..Len(pre.reducers) :
    (/\ LastDispatch
     /\ last.action.type \in {"MarkDone", "ChangeText"}
     /\ Reaches(pre.reducers, n, pre.state, last.action)
     /\ pre.reducers[n] = "todo_reducer"
     /\ last.action.id
          \notin DOMAIN Input(pre.reducers, n, pre.state, last.action).todos.entities)
      => /\ ~last.ok
         /\ store = pre
         /\ last.fired = << >>

\* C10 witness: ChangeText of an absent id failed on a store that holds another
\* todo and has an observer.
C10_Witness ==
  /\ DispatchFailed
  /\ last.action.type = "ChangeText"
  /\ pre.reducers = <<"todo_reducer">>
  /\ last.action.id \notin DOMAIN pre.state.todos.entities
  /\ last.action.id \notin Range(pre.state.todos.ids)
  /\ pre.state.todos.ids # << >>
  /\ Len(pre.observers) >= 1

\* the entities the collection run applies add and update to
CollInputs == NewTodos \cup DoneTodos
\* the collection holds id nowhere: neither in ids nor as a key of entities
Absent(c, id) == id \notin Range(c.ids) /\ id \notin DOMAIN c.entities
\* how often ids holds id
Count(ids, id) == Cardinality({i \in 1..Len(ids) : ids[i] = id})
\* the entities bound to the ids other than id are the same in c and d
SameOthers(c, d, id) ==
  /\ (DOMAIN c.entities) \ {id} = (DOMAIN d.entities) \ {id}
  /\ \A k \in (DOMAIN c.entities) \ {id} : c.entities[k] = d.entities[k]

\* C11: for a collection c reached by add, update and remove and an entity e
\* whose id c holds nowhere, remove(add(c, e), e.id) returns c: the same ids in
\* the same order, the same entities.
C11_RoundTrip ==
  \A e \in CollInputs :
    Absent(coll, get_id(e)) =>
      /\ remove(add(coll, e), get_id(e)).ok
      /\ remove(add(coll, e), get_id(e)).val.ids = coll.ids
      /\ remove(add(coll, e), get_id(e)).val.entities = coll.entities

\* C11 witness: a remove has just undone the add of an entity whose id the
\* collection, which holds another entity, did not hold.
C11_Witness ==
  /\ collLast.op = "remove"
  /\ collLast.ok
  /\ coll.ids # << >>
  /\ Absent(coll, collLast.id)
  /\ \E e \in CollInputs : get_id(e) = collLast.id /\ collPre = add(coll, e)

\* C12: for an entity e whose id the collection c holds,
\* update(update(c, e), e) is update(c, e), in ids and in entities.
C12_IdempotentUpdate ==
  \A e \in CollInputs :
    (get_id(e) \in Range(coll.ids) /\ get_id(e) \in DOMAIN coll.entities) =>
      /\ update(update(coll, e), e).ids = update(coll, e).ids
      /\ update(update(coll, e), e).entities = update(coll, e).entities

\* C12 witness: an update of an entity the collection of two entities already
\* bound to its id has just been applied, and left the collection as it was.
C12_Witness ==
  /\ collLast.op = "update"
  /\ Len(collPre.ids) = 2
  /\ get_id(collLast.entity) \in Range(collPre.ids)
  /\ get_id(collLast.entity) \in DOMAIN collPre.entities
  /\ collPre.entities[get_id(collLast.entity)] = collLast.entity
  /\ coll = collPre

\* C15: add of an entity whose id the collection holds nowhere returns the old
\* ids with the id appended at the end and the old entities plus the binding of
\* the id to the entity.
C15_AddAppends ==
  (collLast.op = "add" /\ Absent(collPre, get_id(collLast.entity))) =>
    /\ collLast.ok
    /\ Len(coll.ids) = Len(collPre.ids) + 1
    /\ coll.ids[Len(coll.ids)] = get_id(collLast.entity)
    /\ \A i \in 1..Len(collPre.ids) : coll.ids[i] = collPre.ids[i]
    /\ DOMAIN coll.entities = (DOMAIN collPre.entities) \cup {get_id(collLast.entity)}
    /\ coll.entities[get_id(collLast.entity)] = collLast.entity
    /\ SameOthers(coll, collPre, get_id(collLast.entity))

\* C15 witness: id 1 was added to a collection that held only id 2 (as after the
\* adds of 1 and 2 and the remove of 1): the order is [2, 1].
C15_Witness ==
  /\ collLast.op = "add"
  /\ get_id(collLast.entity) = 1
  /\ collPre.ids = <<2>>
  /\ DOMAIN collPre.entities = {2}
  /\ coll.ids = <<2, 1>>

\* C16: update of an entity whose id the collection holds leaves ids as it is,
\* binds the id to the entity as a whole and leaves the other entities as they are.
C16_UpdateReplaces ==
  (/\ collLast.op = "update"
   /\ get_id(collLast.entity) \in Range(collPre.ids)
   /\ get_id(collLast.entity) \in DOMAIN collPre.entities) =>
    /\ collLast.ok
    /\ coll.ids = collPre.ids
    /\ DOMAIN coll.entities = DOMAIN collPre.entities
    /\ coll.entities[get_id(collLast.entity)] = collLast.entity
    /\ SameOthers(coll, collPre, get_id(collLast.entity))

\* C16 witness: an update replaced, in a collection of two entities, an entity
\* with another text and another done flag.
C16_Witness ==
  /\ collLast.op = "update"
  /\ collPre.ids = <<1, 2>>
  /\ DOMAIN collPre.entities = {1, 2}
  /\ get_id(collLast.entity) = 2
  /\ collPre.entities[2].done # collLast.entity.done
  /\ collPre.entities[2].task # collLast.entity.task
  /\ coll.entities[2] = collLast.entity

\* C17: remove of an id that ids holds exactly once returns a collection that
\* holds the id neither in ids nor in entities, with the other ids in the order
\* they had and the other entities as they were.
C17_RemoveRemoves ==
  (collLast.op = "remove" /\ Count(collPre.ids, collLast.id) = 1) =>
    /\ collLast.ok
    /\ collLast.id \notin Range(coll.ids)
    /\ collLast.id \notin DOMAIN coll.entities
    /\ coll.ids = SelectSeq(collPre.ids, LAMBDA x : x # collLast.id)
    /\ SameOthers(coll, collPre, collLast.id)

\* C17 witness: id 1 was removed from the collection [1, 2]: the order is [2].
C17_Witness ==
  /\ collLast.op = "remove"
  /\ collLast.ok
  /\ collLast.id = 1
  /\ collPre.ids = <<1, 2>>
  /\ DOMAIN collPre.entities = {1, 2}
  /\ coll.ids = <<2>>
  /\ DOMAIN coll.entities = {2}

\* C13: observe only registers the pair: it calls no observer and leaves the
\* state as it is; an observer is not called before the first dispatch that
\* returns after its registration, and is called by that dispatch.
C13_ObserveOnlyRegisters ==
  /\ last.op = "observe" =>
       /\ last.fired = << >>
       /\ store.state = pre.state
       /\ store.reducers = pre.reducers
       /\ store.observers = Append(pre.observers, last.selector)
       /\ calls[Len(calls)] = 0
  /\ \A j \in 1..Len(calls) :
       /\ since[j] <= nOk
       /\ calls[j] = 0 <=> nOk = since[j]
       /\ (DispatchReturned /\ nOk = since[j] + 1) =>
            /\ calls[j] = 1
            /\ \E k \in 1..Len(last.fired) : last.fired[k].observer = j

\* C13 witness: an observer registered after a dispatch that returned has just
\* been called for the first time, by the next dispatch that returned.
C13_Witness ==
  /\ DispatchReturned
  /\ \E j \in 1..Len(calls) : since[j] = 1 /\ calls[j] = 1 /\ nOk = 2

\* the entity the todos of state s bind to id
TodoOf(s, id) == s.todos.entities[id]

\* C18: MarkDone and ChangeText dispatched for an id the todos hold change the
\* targeted field of that entity and nothing else: ids, the keys of entities,
\* the other entities and the other fields of the entity stay as they were.
C18_FieldMutationFrame ==
  (/\ LastDispatch
   /\ last.action.type \in {"MarkDone", "ChangeText"}
   /\ last.action.id \in Range(pre.state.todos.ids)
   /\ last.action.id \in DOMAIN pre.state.todos.entities) =>
    /\ last.ok
    /\ store.state.todos.ids = pre.state.todos.ids
    /\ DOMAIN store.state.todos.entities = DOMAIN pre.state.todos.entities
    /\ SameOthers(store.state.todos, pre.state.todos, last.action.id)
    /\ TodoOf(store.state, last.action.id).id = TodoOf(pre.state, last.action.id).id
    /\ last.action.type = "MarkDone" =>
         /\ TodoOf(store.state, last.action.id).done = last.action.done
         /\ TodoOf(store.state, last.action.id).task = TodoOf(pre.state, last.action.id).task
    /\ last.action.type = "ChangeText" =>
         /\ TodoOf(store.state, last.action.id).task = last.action.text
         /\ TodoOf(store.state, last.action.id).done = TodoOf(pre.state, last.action.id).done

\* C18 witness: ChangeText gave another text to a finished todo in a collection
\* of two todos.
C18_Witness ==
  /\ DispatchReturned
  /\ last.action.type = "ChangeText"
  /\ pre.state.todos.ids = <<1, 2>>
  /\ DOMAIN pre.state.todos.entities = {1, 2}
  /\ TodoOf(pre.state, last.action.id).done
  /\ TodoOf(pre.state, last.action.id).task # last.action.text

\* C19: from the empty RootState, while every AddEntity is of an id the
\* collection holds nowhere and every other action is on an id it holds, no
\* dispatch fails and ids holds no duplicate and exactly the keys of entities.
C19_WellFormedUse ==
  /\ LastDispatch => last.ok
  /\ NoDuplicates(store.state.todos.ids)
  /\ Range(store.state.todos.ids) = DOMAIN store.state.todos.entities

\* C19 witness: the fourth dispatch, after the adds of ids 1 and 2 and the
\* remove of id 1, has added id 1 again: the order is [2, 1].
C19_Witness ==
  /\ DispatchReturned
  /\ nOk = 4
  /\ last.action.type = "Entity"
  /\ last.action.action.type = "AddEntity"
  /\ store.state.todos.ids = <<2, 1>>

\* C20: a dispatch on a store without reducers returns, leaves the store as it
\* was and calls every observer once, in order, with its selector applied to
\* that state.
C20_NoReducers ==
  (LastDispatch /\ pre.reducers = << >>) =>
    /\ last.ok
    /\ store = pre
    /\ Len(last.fired) = Len(pre.observers)
    /\ \A j \in 1..Len(pre.observers) :
         /\ last.fired[j].observer = j
         /\ last.fired[j].value = call_selector(pre.observers[j], pre.state)

\* C20 witness: the second dispatch on a store with two observers and no
\* reducer.
C20_Witness ==
  /\ DispatchReturned
  /\ pre.reducers = << >>
  /\ Len(pre.observers) = 2
  /\ calls = <<2, 2>>

\* the events of call k
EventsOf(k) == SelectSeq(events, LAMBDA e : e[1] = k)
\* call k is over: it panicked, or it committed and called every observer
Over(k) ==
  \/ \E p \in 1..Len(events) : events[p] = <<k, "panic">>
  \/ /\ \E p \in 1..Len(events) : events[p] = <<k, "commit">>
     /\ Len(SelectSeq(events, LAMBDA e : e = <<k, "observe">>)) = Len(stepStore.observers)

\* the steps of one call compute what dispatch computes
StepsAgreeWithDispatch ==
  \A f \in 1..Len(frames) :
    frames[f].phase = "notify" =>
      LET d == dispatch([stepStore EXCEPT !.state = frames[f].from], frames[f].action)
      IN d.ok /\ d.store.state = stepStore.state

\* C14: dispatch calls on one store do not interleave: at most one call runs,
\* nothing of a call runs after something of a later call, and when a reducer of
\* a call runs, every earlier call is over, its observers called.
C14_NoInterleaving ==
  /\ Len(frames) <= 1
  /\ \A p, q \in 1..Len(events) : p < q => events[p][1] <= events[q][1]
  /\ \A k \in 1..started :
       (\E p \in 1..Len(events) : events[p][1] > k) => Over(k)
  /\ \A f \in 1..Len(frames) : \A k \in 1..(frames[f].call - 1) : Over(k)

\* C14 witness: the first reducer of the second call has run, after both
\* reducers, the assignment and both observers of the first.
C14_Witness ==
  /\ Len(stepStore.reducers) = 2
  /\ Len(stepStore.observers) = 2
  /\ EventsOf(1) = <<<<1, "reduce">>, <<1, "reduce">>, <<1, "commit">>,
                     <<1, "observe">>, <<1, "observe">>>>
  /\ EventsOf(2) = <<<<2, "reduce">>>>

====
